---- MODULE Spec2Model ----
(***************************************************************************)
(* Binding store of the Cisco Nexus ML2 driver (nexus_db_v2.py) and the    *)
(* binding reconciler described in spec.md section 4.2, built on it.       *)
(*                                                                         *)
(* A table is a bag of rows: the functions of nexus_db_v2.py never read    *)
(* or compare a row's surrogate key, so a table is known to them only as   *)
(* the multiset of the rows' column values.                                *)
(***************************************************************************)
EXTENDS Integers, FiniteSets, Sequences, TLC

\* ------------------------------------------------------------------ bounds
\* Largest number of rows the two tables hold together.
MaxRows == 3

\* ------------------------------------------------------------- value sets
\* Python's None in a column or an argument of string type.
None == "None"
\* Python's None in a column or an argument of integer type.
NoneInt == -1

Ports == {"portA", "portC"}
Vlans == {100, 200}
Switches == {"switch1", "switch2"}
Instances == {"inst1"}
\* instance ids a caller may ask for; "inst2" is never stored
QueryInstances == {"inst1", "inst2"}
\* values of new_vlan_id a caller of update_nexusport_binding may pass
NewVlanIds == Vlans \cup {0, NoneInt}

Vnis == {5000}
Devices == {"dev1", "dev2"}
McastGroup == "225.1.1.1"

\* ------------------------------------------------------------------ state
VARIABLES
    store,      \* rows of NexusPortBinding (bag)
    nve,        \* rows of NexusNVEBinding (bag)
    call,       \* the last call made: [op |-> name, ...arguments]
    result,     \* what the last call returned or raised
    provisioned,\* reconciler: pairs flagged for provision and not since for deprovision
    ndeprov,    \* reconciler: deprovision reports of a pair in its current, or
                \*   just ended, period of being referenced
    peak,       \* reconciler: most rows the pair had in that period
    txn,        \* the session of a store call in progress, step by step
    procs,      \* concurrent reconciliations: each one's request and position
    base,       \* the store when the concurrent reconciliations were started
    port_profiles, \* UCSM: committed rows of the port-profile table, by vlan
    mech,       \* UCSM: the port update the mechanism driver is handling
    ucsm_device,\* UCSM: names of the port profiles that exist on UCS Manager
    casts,      \* RPC: the casts the last notification made, in order
    lookups,    \* RPC: the hosting devices whose cfg agents it looked up
    inflight,   \* RPC: the messages cast and neither delivered nor lost yet
    network_profiles, \* N1KV: rows of NetworkProfile, by id
    network_bindings, \* N1KV: rows of N1kvNetworkBinding, by network_id
    port_bindings,    \* N1KV: rows of N1kvPortBinding, by port_id
    nexus_dict        \* ML2MechCiscoConfig.nexus_dict, by (device ip, key)

\* the variables of the other components, which the store calls leave alone
atomicVars == <<txn>>
concVars == <<procs, base>>
ucsmVars == <<port_profiles, mech, ucsm_device>>
rpcVars == <<casts, lookups, inflight>>
n1kvVars == <<network_profiles, network_bindings, port_bindings>>
cfgVars == <<nexus_dict>>
others == <<atomicVars, concVars, ucsmVars, rpcVars, n1kvVars, cfgVars>>
exceptAtomic == <<concVars, ucsmVars, rpcVars, n1kvVars, cfgVars>>
exceptConc == <<atomicVars, ucsmVars, rpcVars, n1kvVars, cfgVars>>
exceptUcsm == <<atomicVars, concVars, rpcVars, n1kvVars, cfgVars>>
exceptRpc == <<atomicVars, concVars, ucsmVars, n1kvVars, cfgVars>>
exceptN1kv == <<atomicVars, concVars, ucsmVars, rpcVars, cfgVars>>
exceptCfg == <<atomicVars, concVars, ucsmVars, rpcVars, n1kvVars>>

vars == <<store, nve, call, result, provisioned, ndeprov, peak, others>>

\* ------------------------------------------------------------------- bags
EmptyBag == << >>

BagAdd(B, e) ==
    IF e \in DOMAIN B THEN [B EXCEPT ![e] = @ + 1] ELSE B @@ (e :> 1)

RECURSIVE SumOver(_, _)
SumOver(B, S) ==
    IF S = {} THEN 0
    ELSE LET e == CHOOSE x \in S : TRUE IN B[e] + SumOver(B, S \ {e})

BagSize(B) == SumOver(B, DOMAIN B)

\* ---------------------------------------------------------------- results
Returned(kind, rows) == [exc |-> "none", kind |-> kind, rows |-> rows]
Raised(exc) == [exc |-> exc, kind |-> "None", rows |-> EmptyBag]

\* nexus_models_v2.NexusPortBinding(port_id=..., vlan_id=..., ...)
NexusPortBinding(port_id, vlan_id, vni, switch_ip, instance_id, is_provider_vlan) ==
    [port_id |-> port_id, vlan_id |-> vlan_id, vni |-> vni,
     switch_ip |-> switch_ip, instance_id |-> instance_id,
     is_provider_vlan |-> is_provider_vlan]

\* ---------------------------------------------------------------- queries
\* Mutant: the filter drops its switch_ip criterion.
Matches_NoSwitch(row, bfilter) ==
    \A k \in DOMAIN bfilter \ {"switch_ip"} : row[k] = bfilter[k]

\* filter_by(**bfilter): every keyword given must equal the row's column
Matches(row, bfilter) ==
    \A k \in DOMAIN bfilter : row[k] = bfilter[k]

\* session.query(Model).filter_by(**bfilter): the matching rows of the table
filter_by(table, bfilter) ==
    [r \in {x \in DOMAIN table : Matches(x, bfilter)} |-> table[r]]

\* Query.all(): the list of matching rows, possibly empty; never raises
query_all(q) == Returned("rows", q)

\* Query.one(): the single matching row, NoResultFound for none,
\* MultipleResultsFound for more than one
query_one(q) ==
    IF BagSize(q) = 0 THEN Raised("NoResultFound")
    ELSE IF BagSize(q) > 1 THEN Raised("MultipleResultsFound")
    ELSE Returned("row", q)

\* Mutant: a result is reported as missing although the query found one.
lookup_AlwaysNotFound(query_type, table, bfilter) ==
    Raised("NexusPortBindingNotFound")

\* Mutant: an empty list is returned instead of raising.
lookup_EmptyIsOk(query_type, table, bfilter) ==
    LET q == filter_by(table, bfilter)
        r == IF query_type = "one" THEN query_one(q) ELSE query_all(q)
    IN  IF r.exc = "NoResultFound" THEN Raised("NexusPortBindingNotFound")
        ELSE r

\* Mutant: a single row found is treated like an empty result.
lookup_SingleIsNotFound(query_type, table, bfilter) ==
    LET q == filter_by(table, bfilter)
        r == IF query_type = "one" THEN query_one(q) ELSE query_all(q)
    IN  IF r.exc = "none" /\ BagSize(r.rows) > 1 THEN r
        ELSE IF r.exc \in {"none", "NoResultFound"}
             THEN Raised("NexusPortBindingNotFound")
        ELSE r

\* Mutant: several matches are reported like no match.
lookup_MultipleIsNotFound(query_type, table, bfilter) ==
    LET q == filter_by(table, bfilter)
        r == IF query_type = "one" THEN query_one(q) ELSE query_all(q)
    IN  IF r.exc = "none" /\ BagSize(r.rows) > 0 THEN r
        ELSE Raised("NexusPortBindingNotFound")

\* _lookup_nexus_bindings(query_type, session, **bfilter), for 'all' and 'one'
_lookup_nexus_bindings(query_type, table, bfilter) ==
    LET q == filter_by(table, bfilter)
        r == IF query_type = "one" THEN query_one(q) ELSE query_all(q)
    IN  IF r.exc = "none" /\ BagSize(r.rows) > 0 THEN r
        ELSE IF r.exc \in {"none", "NoResultFound"}
             THEN Raised("NexusPortBindingNotFound")
        ELSE r

_lookup_all_nexus_bindings(table, bfilter) ==
    _lookup_nexus_bindings("all", table, bfilter)

_lookup_one_nexus_binding(table, bfilter) ==
    _lookup_nexus_bindings("one", table, bfilter)

\* Mutant: the switch is left out of the filter.
get_nexusvlan_binding_VlanOnly(table, vlan_id, switch_ip) ==
    _lookup_all_nexus_bindings(table, [vlan_id |-> vlan_id])

\* Mutant: the switch ip is matched against the instance_id column.
get_nexusvlan_binding_WrongColumn(table, vlan_id, switch_ip) ==
    _lookup_all_nexus_bindings(table,
        [vlan_id |-> vlan_id, instance_id |-> switch_ip])

get_nexusvlan_binding(table, vlan_id, switch_ip) ==
    _lookup_all_nexus_bindings(table,
        [vlan_id |-> vlan_id, switch_ip |-> switch_ip])

\* Mutant: NexusPortBindingNotFound is not caught.
get_port_switch_bindings_NoCatch(table, port_id, switch_ip) ==
    _lookup_all_nexus_bindings(table,
        [port_id |-> port_id, switch_ip |-> switch_ip])

get_port_switch_bindings(table, port_id, switch_ip) ==
    LET r == _lookup_all_nexus_bindings(table,
                 [port_id |-> port_id, switch_ip |-> switch_ip])
    IN  IF r.exc = "NexusPortBindingNotFound"
        THEN Returned("None", EmptyBag)
        ELSE r

\* -------------------------------------------------------------- mutations
\* The mutating functions return [table |-> the table afterwards,
\*                                res   |-> what the call returned or raised].

\* Mutant: the binding is built and returned but never added to the session.
add_nexusport_binding_NoFlush(table, port_id, vlan_id, vni, switch_ip, instance_id, is_provider_vlan) ==
    [table |-> table,
     res   |-> Returned("row", BagAdd(EmptyBag,
                   NexusPortBinding(port_id, vlan_id, vni, switch_ip,
                                    instance_id, is_provider_vlan)))]

add_nexusport_binding(table, port_id, vlan_id, vni, switch_ip, instance_id, is_provider_vlan) ==
    LET binding == NexusPortBinding(port_id, vlan_id, vni, switch_ip,
                                    instance_id, is_provider_vlan)
    IN  [table |-> BagAdd(table, binding),
         res   |-> Returned("row", BagAdd(EmptyBag, binding))]

\* Mutant: the rows are looked up and returned but not deleted.
remove_nexusport_binding_NoDelete(table, port_id, vlan_id, vni, switch_ip, instance_id, is_provider_vlan) ==
    [table |-> table,
     res   |-> _lookup_all_nexus_bindings(table,
                   NexusPortBinding(port_id, vlan_id, vni, switch_ip,
                                    instance_id, is_provider_vlan))]

remove_nexusport_binding(table, port_id, vlan_id, vni, switch_ip, instance_id, is_provider_vlan) ==
    LET binding == _lookup_all_nexus_bindings(table,
                       NexusPortBinding(port_id, vlan_id, vni, switch_ip,
                                        instance_id, is_provider_vlan))
    IN  IF binding.exc # "none" THEN [table |-> table, res |-> binding]
        ELSE [table |-> [r \in DOMAIN table \ DOMAIN binding.rows |-> table[r]],
              res   |-> binding]

\* Mutant: the binding is looked up with 'first' instead of 'one'.
update_nexusport_binding_First(table, port_id, new_vlan_id) ==
    IF new_vlan_id = 0 \/ new_vlan_id = NoneInt
    THEN [table |-> table, res |-> Returned("None", EmptyBag)]
    ELSE LET q == filter_by(table, [port_id |-> port_id])
         IN  IF q = EmptyBag
             THEN [table |-> table, res |-> Raised("NexusPortBindingNotFound")]
             ELSE LET old == CHOOSE r \in DOMAIN q : TRUE
                      new == [old EXCEPT !.vlan_id = new_vlan_id]
                      rest == IF table[old] = 1
                              THEN [r \in DOMAIN table \ {old} |-> table[r]]
                              ELSE [table EXCEPT ![old] = @ - 1]
                  IN  [table |-> BagAdd(rest, new),
                       res   |-> Returned("row", BagAdd(EmptyBag, new))]

\* Mutant: a missing binding is created instead of reported.
update_nexusport_binding_Upsert(table, port_id, new_vlan_id) ==
    IF new_vlan_id = 0 \/ new_vlan_id = NoneInt
    THEN [table |-> table, res |-> Returned("None", EmptyBag)]
    ELSE LET binding == _lookup_one_nexus_binding(table, [port_id |-> port_id])
         IN  IF binding.exc = "NexusPortBindingNotFound"
             THEN add_nexusport_binding(table, port_id, new_vlan_id, NoneInt,
                                        None, None, FALSE)
             ELSE IF binding.exc # "none"
             THEN [table |-> table, res |-> binding]
             ELSE LET old == CHOOSE r \in DOMAIN binding.rows : TRUE
                      new == [old EXCEPT !.vlan_id = new_vlan_id]
                  IN  [table |-> BagAdd([r \in DOMAIN table \ {old} |-> table[r]],
                                        new),
                       res   |-> Returned("row", BagAdd(EmptyBag, new))]

\* Mutant: the guard is 'new_vlan_id is None', so 0 goes on to the lookup.
update_nexusport_binding_NoneOnly(table, port_id, new_vlan_id) ==
    IF new_vlan_id = NoneInt
    THEN [table |-> table, res |-> Returned("None", EmptyBag)]
    ELSE LET binding == _lookup_one_nexus_binding(table, [port_id |-> port_id])
         IN  IF binding.exc # "none" THEN [table |-> table, res |-> binding]
             ELSE LET old == CHOOSE r \in DOMAIN binding.rows : TRUE
                      new == [old EXCEPT !.vlan_id = new_vlan_id]
                  IN  [table |-> BagAdd([r \in DOMAIN table \ {old} |-> table[r]],
                                        new),
                       res   |-> Returned("row", BagAdd(EmptyBag, new))]

update_nexusport_binding(table, port_id, new_vlan_id) ==
    IF new_vlan_id = 0 \/ new_vlan_id = NoneInt
    THEN [table |-> table, res |-> Returned("None", EmptyBag)]
    ELSE LET binding == _lookup_one_nexus_binding(table, [port_id |-> port_id])
         IN  IF binding.exc # "none" THEN [table |-> table, res |-> binding]
             ELSE LET old == CHOOSE r \in DOMAIN binding.rows : TRUE
                      new == [old EXCEPT !.vlan_id = new_vlan_id]
                  IN  [table |-> BagAdd([r \in DOMAIN table \ {old} |-> table[r]],
                                        new),
                       res   |-> Returned("row", BagAdd(EmptyBag, new))]

\* ------------------------------------------------------------ NVE bindings
NexusNVEBinding(vni, switch_ip, device_id, mcast_group) ==
    [vni |-> vni, switch_ip |-> switch_ip, device_id |-> device_id,
     mcast_group |-> mcast_group]

add_nexusnve_binding(table, vni, switch_ip, device_id, mcast_group) ==
    LET binding == NexusNVEBinding(vni, switch_ip, device_id, mcast_group)
    IN  [table |-> BagAdd(table, binding),
         res   |-> Returned("row", BagAdd(EmptyBag, binding))]

\* Mutant: the row is looked up with 'first', which returns None for none.
remove_nexusnve_binding_First(table, vni, switch_ip, device_id) ==
    LET q == filter_by(table, [vni |-> vni, switch_ip |-> switch_ip,
                               device_id |-> device_id])
    IN  IF q = EmptyBag
        THEN [table |-> table, res |-> Returned("None", EmptyBag)]
        ELSE LET bind == CHOOSE r \in DOMAIN q : TRUE
             IN  [table |-> [r \in DOMAIN table \ {bind} |-> table[r]],
                  res   |-> Returned("row", bind :> 1)]

remove_nexusnve_binding(table, vni, switch_ip, device_id) ==
    LET binding == query_one(filter_by(table,
                       [vni |-> vni, switch_ip |-> switch_ip,
                        device_id |-> device_id]))
    IN  IF binding.exc # "none" THEN [table |-> table, res |-> binding]
        ELSE [table |-> [r \in DOMAIN table \ DOMAIN binding.rows |-> table[r]],
              res   |-> binding]

get_nve_vni_switch_bindings(table, vni, switch_ip) ==
    LET r == query_all(filter_by(table,
                 [vni |-> vni, switch_ip |-> switch_ip]))
    IN  IF r.exc = "NoResultFound" THEN Returned("None", EmptyBag) ELSE r

get_nve_vni_member_bindings(table, vni, switch_ip, device_id) ==
    LET r == query_all(filter_by(table,
                 [vni |-> vni, switch_ip |-> switch_ip,
                  device_id |-> device_id]))
    IN  IF r.exc = "NoResultFound" THEN Returned("None", EmptyBag) ELSE r

\* --------------------------------------------- the store's callers (Spec)
Pairs == Vlans \X Switches

NoCall == [op |-> "none"]

\* the concurrent reconciliations (worker threads or request handlers)
Procs == {1, 2}

\* a worker without a reconciliation to run
NoProc == [pc |-> "idle", resource_id |-> None, desired_segment_id |-> NoneInt,
           physical_target |-> None, current |-> EmptyBag,
           provision |-> {}, deprovision |-> {}]

\* the mechanism driver handles no port update
NoUpdate == [phase |-> "idle", vnic_type |-> None, pci_vendor_info |-> None,
             vlan_id |-> NoneInt, rows |-> << >>]

\* no store call is in progress: its session holds nothing
NoTxn == [pc |-> "idle", op |-> "none", binding |-> EmptyBag,
          pending |-> EmptyBag, new |-> EmptyBag]

Init ==
    /\ store = EmptyBag
    /\ nve = EmptyBag
    /\ call = NoCall
    /\ result = Returned("None", EmptyBag)
    /\ provisioned = {}
    /\ ndeprov = [p \in Pairs |-> 0]
    /\ peak = [p \in Pairs |-> 0]
    /\ txn = NoTxn
    /\ procs = [p \in Procs |-> NoProc]
    /\ base = EmptyBag
    /\ port_profiles = << >>
    /\ mech = NoUpdate
    /\ ucsm_device = {}
    /\ casts = << >>
    /\ lookups = << >>
    /\ inflight = {}
    /\ network_profiles = << >>
    /\ network_bindings = << >>
    /\ port_bindings = << >>
    /\ nexus_dict = << >>

Room == BagSize(store) + BagSize(nve) < MaxRows

ghost == <<provisioned, ndeprov, peak>>

Call_add_nexusport_binding ==
    /\ Room
    /\ \E port_id \in Ports, vlan_id \in Vlans, switch_ip \in Switches,
          instance_id \in Instances :
          LET r == add_nexusport_binding(store, port_id, vlan_id, NoneInt,
                                         switch_ip, instance_id, FALSE)
          IN  /\ store' = r.table
              /\ result' = r.res
              /\ call' = [op |-> "add_nexusport_binding",
                          port_id |-> port_id, vlan_id |-> vlan_id,
                          switch_ip |-> switch_ip,
                          instance_id |-> instance_id]
    /\ UNCHANGED <<nve, ghost, others>>

Call_remove_nexusport_binding ==
    /\ \E port_id \in Ports, vlan_id \in Vlans, switch_ip \in Switches,
          instance_id \in QueryInstances :
          LET r == remove_nexusport_binding(store, port_id, vlan_id, NoneInt,
                                            switch_ip, instance_id, FALSE)
          IN  /\ store' = r.table
              /\ result' = r.res
              /\ call' = [op |-> "remove_nexusport_binding",
                          port_id |-> port_id, vlan_id |-> vlan_id,
                          switch_ip |-> switch_ip,
                          instance_id |-> instance_id]
    /\ UNCHANGED <<nve, ghost, others>>

Call_update_nexusport_binding ==
    /\ \E port_id \in Ports, new_vlan_id \in NewVlanIds :
          LET r == update_nexusport_binding(store, port_id, new_vlan_id)
          IN  /\ store' = r.table
              /\ result' = r.res
              /\ call' = [op |-> "update_nexusport_binding",
                          port_id |-> port_id, new_vlan_id |-> new_vlan_id]
    /\ UNCHANGED <<nve, ghost, others>>

Call_get_nexusvlan_binding ==
    /\ \E vlan_id \in Vlans, switch_ip \in Switches :
          /\ result' = get_nexusvlan_binding(store, vlan_id, switch_ip)
          /\ call' = [op |-> "get_nexusvlan_binding",
                      vlan_id |-> vlan_id, switch_ip |-> switch_ip]
    /\ UNCHANGED <<store, nve, ghost, others>>

Call_get_port_switch_bindings ==
    /\ \E port_id \in Ports, switch_ip \in Switches :
          /\ result' = get_port_switch_bindings(store, port_id, switch_ip)
          /\ call' = [op |-> "get_port_switch_bindings",
                      port_id |-> port_id, switch_ip |-> switch_ip]
    /\ UNCHANGED <<store, nve, ghost, others>>

Call_lookup_one_nexus_binding ==
    /\ \E port_id \in Ports :
          /\ result' = _lookup_one_nexus_binding(store, [port_id |-> port_id])
          /\ call' = [op |-> "_lookup_one_nexus_binding", port_id |-> port_id]
    /\ UNCHANGED <<store, nve, ghost, others>>

Call_add_nexusnve_binding ==
    /\ Room
    /\ \E vni \in Vnis, switch_ip \in Switches, device_id \in Devices :
          LET r == add_nexusnve_binding(nve, vni, switch_ip, device_id,
                                        McastGroup)
          IN  /\ nve' = r.table
              /\ result' = r.res
              /\ call' = [op |-> "add_nexusnve_binding", vni |-> vni,
                          switch_ip |-> switch_ip, device_id |-> device_id]
    /\ UNCHANGED <<store, ghost, others>>

Call_remove_nexusnve_binding ==
    /\ \E vni \in Vnis, switch_ip \in Switches, device_id \in Devices :
          LET r == remove_nexusnve_binding(nve, vni, switch_ip, device_id)
          IN  /\ nve' = r.table
              /\ result' = r.res
              /\ call' = [op |-> "remove_nexusnve_binding", vni |-> vni,
                          switch_ip |-> switch_ip, device_id |-> device_id]
    /\ UNCHANGED <<store, ghost, others>>

Call_get_nve_vni_switch_bindings ==
    /\ \E vni \in Vnis, switch_ip \in Switches :
          /\ result' = get_nve_vni_switch_bindings(nve, vni, switch_ip)
          /\ call' = [op |-> "get_nve_vni_switch_bindings", vni |-> vni,
                      switch_ip |-> switch_ip]
    /\ UNCHANGED <<store, nve, ghost, others>>

Call_get_nve_vni_member_bindings ==
    /\ \E vni \in Vnis, switch_ip \in Switches, device_id \in Devices :
          /\ result' = get_nve_vni_member_bindings(nve, vni, switch_ip,
                                                   device_id)
          /\ call' = [op |-> "get_nve_vni_member_bindings", vni |-> vni,
                      switch_ip |-> switch_ip, device_id |-> device_id]
    /\ UNCHANGED <<store, nve, ghost, others>>

Next ==
    \/ Call_add_nexusport_binding
    \/ Call_remove_nexusport_binding
    \/ Call_update_nexusport_binding
    \/ Call_get_nexusvlan_binding
    \/ Call_get_port_switch_bindings
    \/ Call_lookup_one_nexus_binding
    \/ Call_add_nexusnve_binding
    \/ Call_remove_nexusnve_binding
    \/ Call_get_nve_vni_switch_bindings
    \/ Call_get_nve_vni_member_bindings

Spec == Init /\ [][Next]_vars

\* ------------------------------------- the binding reconciler (spec 4.2)
Resources == {"portA", "portB", "portC"}
\* desired_segment_id: a segment, or None when the resource is removed
DesiredSegments == Vlans \cup {NoneInt}

\* Binding Store find (spec 4.1): an empty result is not an error.
find(table, bfilter) ==
    LET r == _lookup_all_nexus_bindings(table, bfilter)
    IN  IF r.exc = "NexusPortBindingNotFound" THEN EmptyBag ELSE r.rows

\* Binding Store delete (spec 4.1) of each of the given rows.
RECURSIVE delete_rows(_, _)
delete_rows(table, rows) ==
    IF rows = {} THEN table
    ELSE LET r == CHOOSE x \in rows : TRUE
         IN  delete_rows(remove_nexusport_binding(table, r.port_id, r.vlan_id,
                             r.vni, r.switch_ip, r.instance_id,
                             r.is_provider_vlan).table,
                         rows \ {r})

\* "found via a lookup for remaining rows with that segment/target"
unreferenced(table, pair) ==
    get_nexusvlan_binding(table, pair[1], pair[2]).exc
        = "NexusPortBindingNotFound"

PairOf(row) == <<row.vlan_id, row.switch_ip>>

\* reconcile(resource_id, desired_segment_id, physical_target, is_provider),
\* steps 1 to 4 of spec 4.2, as one transaction.
reconcile(table, resource_id, desired_segment_id, physical_target, is_provider) ==
    LET current == find(table, [port_id |-> resource_id])
        desired == NexusPortBinding(resource_id, desired_segment_id, NoneInt,
                                    physical_target, None, is_provider)
        pair    == <<desired_segment_id, physical_target>>
        deleted == delete_rows(table, DOMAIN current)
        deprovision == {p \in {PairOf(r) : r \in DOMAIN current} :
                           unreferenced(deleted, p)}
        insert(t) == add_nexusport_binding(t, resource_id, desired_segment_id,
                         NoneInt, physical_target, None, is_provider).table
        provision(t) == IF unreferenced(t, pair) THEN {pair} ELSE {}
    IN  IF desired_segment_id = NoneInt
        THEN [table |-> deleted, provision |-> {},
              deprovision |-> deprovision]
        ELSE IF current = EmptyBag
        THEN [table |-> insert(table), provision |-> provision(table),
              deprovision |-> {}]
        ELSE IF current = BagAdd(EmptyBag, desired)
        THEN [table |-> table, provision |-> {}, deprovision |-> {}]
        ELSE [table |-> insert(deleted), provision |-> provision(deleted),
              deprovision |-> deprovision]

\* rows of the table that reference the pair
refs(table, pair) ==
    BagSize([r \in {x \in DOMAIN table : PairOf(x) = pair} |-> table[r]])

Max(a, b) == IF a >= b THEN a ELSE b

Min(a, b) == IF a <= b THEN a ELSE b

\* is_provider values the reconciler is called with
ProviderFlags == {FALSE}

Reconcile ==
    /\ \E resource_id \in Resources, desired_segment_id \in DesiredSegments,
          physical_target \in Switches, is_provider \in ProviderFlags :
       \E r \in {reconcile(store, resource_id, desired_segment_id,
                           physical_target, is_provider)} :
       \E before \in {[p \in Pairs |-> refs(store, p)]},
          after \in {[p \in Pairs |-> refs(r.table, p)]} :
          LET flag(p) == IF p \in r.deprovision THEN 1 ELSE 0
              opened(p) == before[p] = 0 \/ p \in r.provision
          IN  /\ store' = r.table
              /\ result' = [exc |-> "none", provision |-> r.provision,
                            deprovision |-> r.deprovision]
              /\ call' = [op |-> "reconcile", resource_id |-> resource_id,
                          desired_segment_id |-> desired_segment_id,
                          physical_target |-> physical_target,
                          is_provider |-> is_provider]
              /\ provisioned' = (provisioned \ r.deprovision) \cup r.provision
              /\ ndeprov' = [p \in Pairs |->
                    IF after[p] > 0
                    THEN IF opened(p) THEN 0
                         ELSE Min(ndeprov[p] + flag(p), 2)
                    ELSE IF before[p] > 0
                         THEN Min(ndeprov[p] + flag(p), 2)
                         ELSE flag(p)]
              /\ peak' = [p \in Pairs |->
                    IF after[p] > 0
                    THEN IF opened(p) THEN after[p]
                         ELSE Max(peak[p], after[p])
                    ELSE IF before[p] > 0 THEN peak[p] ELSE 0]
    /\ UNCHANGED <<nve, others>>

NextReconcile == Reconcile

SpecReconcile == Init /\ [][NextReconcile]_vars

\* ================================================================ claims
\* The formulas below describe the tables by direct comparison of columns,
\* not through filter_by.

Restrict(table, S) == [r \in S |-> table[r]]

RowsOfPort(table, port_id) ==
    Restrict(table, {r \in DOMAIN table : r.port_id = port_id})

ReconcileCall(resource_id, desired_segment_id, physical_target) ==
    [op |-> "reconcile", resource_id |-> resource_id,
     desired_segment_id |-> desired_segment_id,
     physical_target |-> physical_target, is_provider |-> FALSE]

ReconciledRow(resource_id, segment_id, physical_target) ==
    [port_id |-> resource_id, vlan_id |-> segment_id, vni |-> NoneInt,
     switch_ip |-> physical_target, instance_id |-> None,
     is_provider_vlan |-> FALSE]

SameKey(table, row) ==
    Restrict(table, {r \in DOMAIN table :
                        /\ r.port_id = row.port_id
                        /\ r.vlan_id = row.vlan_id
                        /\ r.switch_ip = row.switch_ip})

Unique(table) == \A r \in DOMAIN table : BagSize(SameKey(table, r)) = 1

RemoveMatches(table, c) ==
    Restrict(table, {r \in DOMAIN table :
                        /\ r.port_id = c.port_id
                        /\ r.vlan_id = c.vlan_id
                        /\ r.vni = NoneInt
                        /\ r.switch_ip = c.switch_ip
                        /\ r.instance_id = c.instance_id
                        /\ r.is_provider_vlan = FALSE})

Truthy(v) == v # 0 /\ v # NoneInt

\* C8 as claimed: update for a port without a binding fails with the
\* not-found error and adds no row; for a port with a binding it replaces
\* the segment id of that binding and nothing else.
C8_UpdateNeverCreates ==
    [][call'.op = "update_nexusport_binding" =>
         LET m == RowsOfPort(store, call'.port_id)
         IN  IF m = EmptyBag
             THEN /\ result'.exc = "NexusPortBindingNotFound"
                  /\ store' = store
             ELSE /\ result'.exc = "none"
                  /\ \E old \in DOMAIN m :
                        result'.rows
                          = ([old EXCEPT !.vlan_id = call'.new_vlan_id] :> 1)
         ]_vars

\* C8 as amended: for a new_vlan_id that is neither None nor 0, update for
\* a port without a binding raises NexusPortBindingNotFound and leaves the
\* store as it was; for a port with exactly one binding it replaces that
\* row's vlan_id and no other column or row; for a port with several it
\* raises MultipleResultsFound and leaves the store as it was.
C8_UpdateTruthyNeverCreates ==
    [][(call'.op = "update_nexusport_binding" /\ Truthy(call'.new_vlan_id)) =>
         LET m == RowsOfPort(store, call'.port_id)
         IN  IF m = EmptyBag
             THEN /\ result'.exc = "NexusPortBindingNotFound"
                  /\ store' = store
             ELSE IF BagSize(m) = 1
             THEN \E old \in DOMAIN m :
                    LET new == [port_id |-> old.port_id,
                                vlan_id |-> call'.new_vlan_id,
                                vni |-> old.vni,
                                switch_ip |-> old.switch_ip,
                                instance_id |-> old.instance_id,
                                is_provider_vlan |-> old.is_provider_vlan]
                    IN  /\ result'.exc = "none"
                        /\ result'.rows = (new :> 1)
                        /\ RowsOfPort(store', call'.port_id) = (new :> 1)
                        /\ \A r \in DOMAIN store \cup DOMAIN store' :
                              r.port_id # call'.port_id =>
                                 /\ r \in DOMAIN store \cap DOMAIN store'
                                 /\ store'[r] = store[r]
             ELSE /\ result'.exc = "MultipleResultsFound"
                  /\ store' = store]_vars

C8_Witness ==
    /\ call.op = "update_nexusport_binding"
    /\ Truthy(call.new_vlan_id)
    /\ result.exc = "NexusPortBindingNotFound"
    /\ RowsOfPort(store, call.port_id) = EmptyBag
    /\ store # EmptyBag

\* ---- C9
\* C9: the 'one' lookup returns the row when exactly one row matches, raises
\* NexusPortBindingNotFound when none matches and MultipleResultsFound when
\* several match; it never changes the store.
C9_FindOne ==
    [][call'.op = "_lookup_one_nexus_binding" =>
         LET m == RowsOfPort(store, call'.port_id)
         IN  /\ store' = store
             /\ BagSize(m) = 1 =>
                   result'.exc = "none" /\ result'.rows = m
             /\ BagSize(m) = 0 =>
                   result'.exc = "NexusPortBindingNotFound"
             /\ BagSize(m) > 1 =>
                   result'.exc = "MultipleResultsFound"]_vars

C9_Witness ==
    /\ call.op = "_lookup_one_nexus_binding"
    /\ result.exc = "MultipleResultsFound"
    /\ BagSize(RowsOfPort(store, call.port_id)) > 1

\* ---- C10
VlanSwitchRows(table, c) ==
    Restrict(table, {r \in DOMAIN table :
                        r.vlan_id = c.vlan_id /\ r.switch_ip = c.switch_ip})

PortSwitchRows(table, c) ==
    Restrict(table, {r \in DOMAIN table :
                        r.port_id = c.port_id /\ r.switch_ip = c.switch_ip})

VniSwitchRows(table, c) ==
    Restrict(table, {r \in DOMAIN table :
                        r.vni = c.vni /\ r.switch_ip = c.switch_ip})

VniMemberRows(table, c) ==
    Restrict(table, {r \in DOMAIN table :
                        /\ r.vni = c.vni /\ r.switch_ip = c.switch_ip
                        /\ r.device_id = c.device_id})

\* C10 as claimed: a find returns exactly the rows that equal the filter in
\* every field given, and an empty result, not an error, when none does.
C10_FindReturnsMatches ==
    [][/\ call'.op = "get_nexusvlan_binding" =>
             /\ result'.exc = "none"
             /\ result'.rows = VlanSwitchRows(store, call')
       /\ call'.op = "get_port_switch_bindings" =>
             /\ result'.exc = "none" /\ result'.kind = "rows"
             /\ result'.rows = PortSwitchRows(store, call')
       /\ call'.op = "get_nve_vni_switch_bindings" =>
             /\ result'.exc = "none" /\ result'.kind = "rows"
             /\ result'.rows = VniSwitchRows(nve, call')]_vars

\* C10 as amended: a find returns exactly the rows that equal the filter in
\* every field given when there is one; when there is none the lookups of
\* port bindings raise NexusPortBindingNotFound (get_nexusvlan_binding) or
\* return None (get_port_switch_bindings), and only the lookups of NVE
\* bindings return an empty result.
C10_FindReturnsMatchesOrRaises ==
    [][/\ call'.op = "get_nexusvlan_binding" =>
             LET m == VlanSwitchRows(store, call')
             IN  IF m = EmptyBag
                 THEN result'.exc = "NexusPortBindingNotFound"
                 ELSE result' = Returned("rows", m)
       /\ call'.op = "get_port_switch_bindings" =>
             LET m == PortSwitchRows(store, call')
             IN  IF m = EmptyBag
                 THEN result' = Returned("None", EmptyBag)
                 ELSE result' = Returned("rows", m)
       /\ call'.op = "get_nve_vni_switch_bindings" =>
             result' = Returned("rows", VniSwitchRows(nve, call'))
       /\ call'.op = "get_nve_vni_member_bindings" =>
             result' = Returned("rows", VniMemberRows(nve, call'))
       /\ call'.op \in {"get_nexusvlan_binding", "get_port_switch_bindings",
                        "get_nve_vni_switch_bindings",
                        "get_nve_vni_member_bindings"} =>
             store' = store /\ nve' = nve]_vars

C10_Witness ==
    /\ call.op = "get_nexusvlan_binding"
    /\ result.exc = "NexusPortBindingNotFound"
    /\ \E r \in DOMAIN store : r.vlan_id = call.vlan_id
    /\ \E r \in DOMAIN store : r.switch_ip = call.switch_ip

\* ---- C11
\* the row that add_nexusport_binding stores for the call c
AddedRow(c) ==
    [port_id |-> c.port_id, vlan_id |-> c.vlan_id, vni |-> NoneInt,
     switch_ip |-> c.switch_ip, instance_id |-> c.instance_id,
     is_provider_vlan |-> FALSE]

\* the row that add_nexusnve_binding stores for the call c
AddedNveRow(c) ==
    [vni |-> c.vni, switch_ip |-> c.switch_ip, device_id |-> c.device_id,
     mcast_group |-> McastGroup]

\* the table with one more copy of the row
PlusOne(table, row) ==
    [r \in DOMAIN table \cup {row} |->
        IF r = row
        THEN (IF r \in DOMAIN table THEN table[r] ELSE 0) + 1
        ELSE table[r]]

\* the port binding is in the result of each port-binding find whose filter
\* it matches, issued on the table
VisiblePort(table, row) ==
    /\ row \in DOMAIN get_nexusvlan_binding(table, row.vlan_id,
                                            row.switch_ip).rows
    /\ row \in DOMAIN get_port_switch_bindings(table, row.port_id,
                                               row.switch_ip).rows
    /\ row \in DOMAIN _lookup_all_nexus_bindings(table, row).rows

VisibleNve(table, row) ==
    /\ row \in DOMAIN get_nve_vni_switch_bindings(table, row.vni,
                                                  row.switch_ip).rows
    /\ row \in DOMAIN get_nve_vni_member_bindings(table, row.vni,
                                                  row.switch_ip,
                                                  row.device_id).rows

OneError(n, absent) ==
    IF n = 0 THEN absent
    ELSE IF n > 1 THEN "MultipleResultsFound" ELSE "none"

QueryError(c) ==
    IF c.op = "get_nexusvlan_binding"
    THEN IF VlanSwitchRows(store, c) = EmptyBag
         THEN "NexusPortBindingNotFound" ELSE "none"
    ELSE IF c.op = "get_port_switch_bindings"
    THEN IF PortSwitchRows(store, c) = EmptyBag
         THEN "NexusPortBindingNotFound" ELSE "none"
    ELSE IF c.op = "remove_nexusport_binding"
    THEN IF RemoveMatches(store, c) = EmptyBag
         THEN "NexusPortBindingNotFound" ELSE "none"
    ELSE IF c.op = "update_nexusport_binding"
    THEN IF Truthy(c.new_vlan_id)
         THEN OneError(BagSize(RowsOfPort(store, c.port_id)),
                       "NexusPortBindingNotFound")
         ELSE "none"
    ELSE IF c.op = "_lookup_one_nexus_binding"
    THEN OneError(BagSize(RowsOfPort(store, c.port_id)),
                  "NexusPortBindingNotFound")
    ELSE IF c.op = "remove_nexusnve_binding"
    THEN OneError(BagSize(VniMemberRows(nve, c)), "NoResultFound")
    ELSE "none"

Count(B, e) == IF e \in DOMAIN B THEN B[e] ELSE 0

BagMinus(table, rows) ==
    [r \in {x \in DOMAIN table :
               x \notin DOMAIN rows \/ table[x] > rows[x]} |->
        IF r \in DOMAIN rows THEN table[r] - rows[r] ELSE table[r]]

RECURSIVE BagPlus(_, _)
BagPlus(table, rows) ==
    IF rows = EmptyBag THEN table
    ELSE LET r == CHOOSE x \in DOMAIN rows : TRUE
         IN  BagPlus(BagAdd(table, r), BagMinus(rows, r :> 1))

\* Mutant: the session deletes the row from the table at once (autoflush).
session_delete_Autoflush(table, pending, bind) ==
    [table |-> BagMinus(table, bind :> 1), pending |-> pending]

\* session.delete(bind): the row is marked deleted in the session
session_delete(table, pending, bind) ==
    [table |-> table, pending |-> BagAdd(pending, bind)]

\* session.flush(): the pending deletes and the changed rows go to the
\* table in one transaction
session_flush(table, pending, new) ==
    BagPlus(BagMinus(table, pending), new)

Remove_lookup ==
    /\ txn.pc = "idle"
    /\ \E port_id \in Ports, vlan_id \in Vlans, switch_ip \in Switches,
          instance_id \in Instances :
          LET binding == _lookup_all_nexus_bindings(store,
                             NexusPortBinding(port_id, vlan_id, NoneInt,
                                 switch_ip, instance_id, FALSE))
              c == [op |-> "remove_nexusport_binding",
                    port_id |-> port_id, vlan_id |-> vlan_id,
                    switch_ip |-> switch_ip, instance_id |-> instance_id]
          IN  IF binding.exc # "none"
              THEN /\ result' = binding
                   /\ call' = c
                   /\ txn' = NoTxn
              ELSE /\ txn' = [pc |-> "loop", op |-> c,
                              binding |-> binding.rows,
                              pending |-> EmptyBag, new |-> EmptyBag]
                   /\ UNCHANGED <<call, result>>
    /\ UNCHANGED <<store, nve, ghost, exceptAtomic>>

\* one turn of 'for bind in binding: session.delete(bind)'
Remove_delete ==
    /\ txn.pc = "loop"
    /\ \E bind \in DOMAIN txn.binding :
          /\ Count(txn.pending, bind) < txn.binding[bind]
          /\ \E r \in {session_delete(store, txn.pending, bind)} :
                /\ store' = r.table
                /\ txn' = [txn EXCEPT !.pending = r.pending]
    /\ UNCHANGED <<nve, call, result, ghost, exceptAtomic>>

Remove_flush ==
    /\ txn.pc = "loop"
    /\ \A bind \in DOMAIN txn.binding :
          Count(txn.pending, bind) = txn.binding[bind]
    /\ store' = session_flush(store, txn.pending, txn.new)
    /\ result' = Returned("rows", txn.binding)
    /\ call' = txn.op
    /\ txn' = NoTxn
    /\ UNCHANGED <<nve, ghost, exceptAtomic>>

Update_lookup ==
    /\ txn.pc = "idle"
    /\ \E port_id \in Ports, new_vlan_id \in NewVlanIds :
          LET c == [op |-> "update_nexusport_binding",
                    port_id |-> port_id, new_vlan_id |-> new_vlan_id]
              binding == _lookup_one_nexus_binding(store,
                             [port_id |-> port_id])
          IN  IF new_vlan_id = 0 \/ new_vlan_id = NoneInt
              THEN /\ result' = Returned("None", EmptyBag)
                   /\ call' = c
                   /\ txn' = NoTxn
              ELSE IF binding.exc # "none"
              THEN /\ result' = binding
                   /\ call' = c
                   /\ txn' = NoTxn
              ELSE /\ txn' = [pc |-> "dirty", op |-> c,
                              binding |-> binding.rows,
                              pending |-> binding.rows,
                              new |-> [r \in {[x EXCEPT !.vlan_id = new_vlan_id] :
                                          x \in DOMAIN binding.rows} |-> 1]]
                   /\ UNCHANGED <<call, result>>
    /\ UNCHANGED <<store, nve, ghost, exceptAtomic>>

Update_flush ==
    /\ txn.pc = "dirty"
    /\ store' = session_flush(store, txn.pending, txn.new)
    /\ result' = Returned("row", txn.new)
    /\ call' = txn.op
    /\ txn' = NoTxn
    /\ UNCHANGED <<nve, ghost, exceptAtomic>>

\* add_nexusport_binding in another session, committed by its flush
Concurrent_add ==
    /\ Room
    /\ \E port_id \in Ports, vlan_id \in Vlans, switch_ip \in Switches,
          instance_id \in Instances :
          store' = add_nexusport_binding(store, port_id, vlan_id, NoneInt,
                       switch_ip, instance_id, FALSE).table
    /\ UNCHANGED <<nve, call, result, ghost, txn, exceptAtomic>>

NextAtomic ==
    \/ Remove_lookup
    \/ Remove_delete
    \/ Remove_flush
    \/ Update_lookup
    \/ Update_flush
    \/ Concurrent_add

SpecAtomic == Init /\ [][NextAtomic]_vars

\* ---- C12
\* rows of the table that the call in progress looked up
Held(table) ==
    \A r \in DOMAIN txn.binding :
       r \in DOMAIN table /\ table[r] >= txn.binding[r]

\* C12: a store call changes the table in one step, by all of its change:
\* while remove_nexusport_binding marks its rows one by one, and while
\* update_nexusport_binding holds the changed row, every row the call
\* looked up is still in the table; the step that ends the call removes
\* every looked-up row, and adds the replaced row, at once.
C12_Atomic ==
    [][/\ txn'.pc # "idle" => Held(store')
       /\ (txn.pc # "idle" /\ txn'.pc = "idle") =>
             store' = BagPlus(BagMinus(store, txn.binding), txn.new)]_vars

C12_Witness ==
    /\ txn.pc = "idle"
    /\ call.op = "remove_nexusport_binding"
    /\ result.exc = "none"
    /\ BagSize(result.rows) = 2
    /\ \A r \in DOMAIN result.rows : r \notin DOMAIN store

\* ================= concurrent reconciliations (spec 5, SpecConcurrent)
\* Steps 1 to 4 of spec 4.2 as the store calls they are made of. Each store
\* function opens its own session (db.get_session() in every function), so
\* each call is a transaction of its own; reconciliations of one resource
\* id exclude each other, those of different resource ids interleave.
Running(p) == procs[p].pc \notin {"idle", "ready", "done"}

\* the workers are handed their reconciliations
Round_start ==
    /\ \A p \in Procs : procs[p].pc = "idle"
    /\ \E req \in [Procs -> Ports \X DesiredSegments \X Switches] :
          procs' = [p \in Procs |->
                       [NoProc EXCEPT !.pc = "ready",
                                      !.resource_id = req[p][1],
                                      !.desired_segment_id = req[p][2],
                                      !.physical_target = req[p][3]]]
    /\ base' = store
    /\ UNCHANGED <<store, nve, call, result, ghost, exceptConc>>

\* step 1: look up the current bindings of the resource, once no other
\* reconciliation of the same resource id is running
Step_find ==
    /\ \E p \in Procs :
          /\ procs[p].pc = "ready"
          /\ \A q \in Procs \ {p} :
                Running(q) => procs[q].resource_id # procs[p].resource_id
          /\ LET current == find(store, [port_id |-> procs[p].resource_id])
                 desired == NexusPortBinding(procs[p].resource_id,
                                procs[p].desired_segment_id, NoneInt,
                                procs[p].physical_target, None, FALSE)
                 next == IF procs[p].desired_segment_id = NoneInt
                         THEN IF current = EmptyBag THEN "done" ELSE "delete"
                         ELSE IF current = EmptyBag THEN "check_prov"
                         ELSE IF current = BagAdd(EmptyBag, desired)
                         THEN "done" ELSE "delete"
             IN  procs' = [procs EXCEPT ![p].pc = next,
                                        ![p].current = current]
    /\ UNCHANGED <<store, nve, call, result, ghost, base, exceptConc>>

\* steps 3 and 4: delete the old bindings
Step_delete ==
    /\ \E p \in Procs :
          /\ procs[p].pc = "delete"
          /\ store' = delete_rows(store, DOMAIN procs[p].current)
          /\ procs' = [procs EXCEPT ![p].pc = "check_deprov"]
    /\ UNCHANGED <<nve, call, result, ghost, base, exceptConc>>

\* steps 3 and 4: a pair left without reference is marked for deprovision
Step_check_deprov ==
    /\ \E p \in Procs :
          /\ procs[p].pc = "check_deprov"
          /\ procs' = [procs EXCEPT
                ![p].pc = IF procs[p].desired_segment_id = NoneInt
                          THEN "done" ELSE "check_prov",
                ![p].deprovision =
                    {pr \in {PairOf(r) : r \in DOMAIN procs[p].current} :
                        unreferenced(store, pr)}]
    /\ UNCHANGED <<store, nve, call, result, ghost, base, exceptConc>>

\* step 2: a new pair is marked for provision
Step_check_prov ==
    /\ \E p \in Procs :
          /\ procs[p].pc = "check_prov"
          /\ LET pair == <<procs[p].desired_segment_id,
                           procs[p].physical_target>>
             IN  procs' = [procs EXCEPT
                    ![p].pc = "insert",
                    ![p].provision = IF unreferenced(store, pair)
                                     THEN {pair} ELSE {}]
    /\ UNCHANGED <<store, nve, call, result, ghost, base, exceptConc>>

\* step 2: insert the new binding
Step_insert ==
    /\ \E p \in Procs :
          /\ procs[p].pc = "insert"
          /\ store' = add_nexusport_binding(store, procs[p].resource_id,
                          procs[p].desired_segment_id, NoneInt,
                          procs[p].physical_target, None, FALSE).table
          /\ procs' = [procs EXCEPT ![p].pc = "done"]
    /\ UNCHANGED <<nve, call, result, ghost, base, exceptConc>>

\* the results are handed back
Round_end ==
    /\ \A p \in Procs : procs[p].pc = "done"
    /\ procs' = [p \in Procs |-> NoProc]
    /\ UNCHANGED <<store, nve, call, result, ghost, base, exceptConc>>

NextConcurrent ==
    \/ Round_start
    \/ Step_find
    \/ Step_delete
    \/ Step_check_deprov
    \/ Step_check_prov
    \/ Step_insert
    \/ Round_end

SpecConcurrent == Init /\ [][NextConcurrent]_vars

\* ---- C13
\* the reconciliation of worker p, run alone as one transaction
Alone(table, p) ==
    reconcile(table, procs[p].resource_id, procs[p].desired_segment_id,
              procs[p].physical_target, FALSE)

SameResult(p, r) ==
    /\ procs[p].provision = r.provision
    /\ procs[p].deprovision = r.deprovision

\* the store and the flags are those of running p and then q from base
SerialOrder(p, q) ==
    LET first == Alone(base, p)
        second == Alone(first.table, q)
    IN  /\ store = second.table
        /\ SameResult(p, first)
        /\ SameResult(q, second)

PCI_INFO_CISCO_VIC_1240_Intel == "8086:10c9"

\* ========================= the UCSM mechanism driver (SpecUcsm)
\* The driver and its table are known by their unit tests and constants.
PCI_INFO_CISCO_VIC_1240 == "1137:0071"

PCI_INFO_INTEL_82599 == "8086:10c9"
\* Mutant: another prefix.
PORT_PROFILE_NAME_PREFIX_Lower == "os-pp-"

PORT_PROFILE_NAME_PREFIX == "OS-PP-"

VNIC_TYPES == {"normal", "direct", "macvtap"}
\* Mutant: the normal vnic type counts as an SR-IOV type.
SRIOV_VNIC_TYPES_WithNormal == {"normal", "direct", "macvtap"}

SRIOV_VNIC_TYPES == {"direct", "macvtap"}

SUPPORTED_PCI_DEVS == {"1137:0071", "8086:10c9"}

PCI_INFO_BAD_NIC == "1111:2222"

PciInfos == SUPPORTED_PCI_DEVS \cup {PCI_INFO_BAD_NIC}

check_vnic_type_and_vendor_info(vnic_type, pci_vendor_info) ==
    /\ vnic_type \in SRIOV_VNIC_TYPES
    /\ pci_vendor_info \in SUPPORTED_PCI_DEVS

is_vmfex_port(pci_vendor_info) == pci_vendor_info = PCI_INFO_CISCO_VIC_1240

make_profile_name(vlan_id) == PORT_PROFILE_NAME_PREFIX \o ToString(vlan_id)

get_port_profile_for_vlan(table, vlan_id) ==
    IF vlan_id \in DOMAIN table THEN table[vlan_id].profile_id ELSE None

is_port_profile_created(table, vlan_id) ==
    vlan_id \in DOMAIN table /\ table[vlan_id].created_on_ucs

add_port_profile(table, profile_name, vlan_id) ==
    [v \in DOMAIN table \cup {vlan_id} |->
        IF v = vlan_id
        THEN [profile_id |-> profile_name, created_on_ucs |-> FALSE]
        ELSE table[v]]

set_port_profile_created(table, vlan_id, profile_name) ==
    [v \in DOMAIN table |->
        IF v = vlan_id /\ table[v].profile_id = profile_name
        THEN [table[v] EXCEPT !.created_on_ucs = TRUE]
        ELSE table[v]]

\* a VM-FEX port: a supported SR-IOV vnic type on a Cisco VIC
VmFex(vnic_type, pci_vendor_info) ==
    /\ check_vnic_type_and_vendor_info(vnic_type, pci_vendor_info)
    /\ is_vmfex_port(pci_vendor_info)

\* the table after update_port_precommit
update_port_precommit(table, vnic_type, pci_vendor_info, vlan_id) ==
    IF /\ VmFex(vnic_type, pci_vendor_info)
       /\ get_port_profile_for_vlan(table, vlan_id) = None
    THEN add_port_profile(table, make_profile_name(vlan_id), vlan_id)
    ELSE table

\* Mutant: a failed create_portprofile removes the row of the vlan.
update_port_postcommit_Rollback(table, device, vnic_type, pci_vendor_info, vlan_id, ok) ==
    IF VmFex(vnic_type, pci_vendor_info)
    THEN IF is_port_profile_created(table, vlan_id)
         THEN [table |-> table, device |-> device, pushed |-> "none",
               ok |-> TRUE]
         ELSE [table |-> IF ok
                         THEN set_port_profile_created(table, vlan_id,
                                  make_profile_name(vlan_id))
                         ELSE [v \in DOMAIN table \ {vlan_id} |-> table[v]],
               device |-> IF ok THEN device \cup {make_profile_name(vlan_id)}
                          ELSE device,
               pushed |-> "create_portprofile", ok |-> ok]
    ELSE [table |-> table, device |-> device,
          pushed |-> "update_serviceprofile", ok |-> ok]

\* update_port_postcommit, where ok is what the call to UCS Manager
\* (create_portprofile or update_serviceprofile) returns
update_port_postcommit(table, device, vnic_type, pci_vendor_info, vlan_id, ok) ==
    IF VmFex(vnic_type, pci_vendor_info)
    THEN IF is_port_profile_created(table, vlan_id)
         THEN [table |-> table, device |-> device, pushed |-> "none",
               ok |-> TRUE]
         ELSE [table |-> IF ok
                         THEN set_port_profile_created(table, vlan_id,
                                  make_profile_name(vlan_id))
                         ELSE table,
               device |-> IF ok THEN device \cup {make_profile_name(vlan_id)}
                          ELSE device,
               pushed |-> "create_portprofile", ok |-> ok]
    ELSE [table |-> table, device |-> device,
          pushed |-> "update_serviceprofile", ok |-> ok]

PortCall(op, m) ==
    [op |-> op, vnic_type |-> m.vnic_type,
     pci_vendor_info |-> m.pci_vendor_info, vlan_id |-> m.vlan_id]

\* the driver's precommit hook, inside the transaction of the port update
Ucsm_precommit ==
    /\ mech.phase = "idle"
    /\ \E vnic_type \in VNIC_TYPES, pci_vendor_info \in PciInfos,
          vlan_id \in Vlans :
          /\ mech' = [phase |-> "precommit", vnic_type |-> vnic_type,
                      pci_vendor_info |-> pci_vendor_info,
                      vlan_id |-> vlan_id,
                      rows |-> update_port_precommit(port_profiles,
                                   vnic_type, pci_vendor_info, vlan_id)]
          /\ call' = PortCall("update_port_precommit", mech')
          /\ result' = Returned("None", EmptyBag)
    /\ UNCHANGED <<store, nve, ghost, port_profiles, ucsm_device, exceptUcsm>>

\* the transaction of the port update commits
Ucsm_commit ==
    /\ mech.phase = "precommit"
    /\ port_profiles' = mech.rows
    /\ mech' = [mech EXCEPT !.phase = "committed"]
    /\ UNCHANGED <<store, nve, call, result, ghost, ucsm_device, exceptUcsm>>

\* the driver's postcommit hook, which calls UCS Manager
Ucsm_postcommit ==
    /\ mech.phase = "committed"
    /\ \E ok \in BOOLEAN :
       \E r \in {update_port_postcommit(port_profiles, ucsm_device,
                     mech.vnic_type, mech.pci_vendor_info, mech.vlan_id,
                     ok)} :
          /\ port_profiles' = r.table
          /\ ucsm_device' = r.device
          /\ call' = PortCall("update_port_postcommit", mech)
          /\ result' = [exc |-> "none", kind |-> r.pushed, ok |-> r.ok,
                        rows |-> EmptyBag]
    /\ mech' = NoUpdate
    /\ UNCHANGED <<store, nve, ghost, exceptUcsm>>

\* the driver is asked whether it supports a port
Call_check_vnic_type_and_vendor_info ==
    /\ \E vnic_type \in VNIC_TYPES, pci_vendor_info \in PciInfos :
          /\ call' = [op |-> "check_vnic_type_and_vendor_info",
                      vnic_type |-> vnic_type,
                      pci_vendor_info |-> pci_vendor_info]
          /\ result' = Returned(
                IF check_vnic_type_and_vendor_info(vnic_type, pci_vendor_info)
                THEN "True" ELSE "False", EmptyBag)
    /\ UNCHANGED <<store, nve, ghost, ucsmVars, exceptUcsm>>

NextUcsm ==
    \/ Ucsm_precommit
    \/ Ucsm_commit
    \/ Ucsm_postcommit
    \/ Call_check_vnic_type_and_vendor_info

SpecUcsm == Init /\ [][NextUcsm]_vars

\* ---- C14
\* the step is the postcommit hook of the port update in progress
PostcommitStep ==
    /\ call'.op = "update_port_postcommit"
    /\ mech.phase # "idle"
    /\ mech'.phase = "idle"

Created(table, vlan_id) ==
    vlan_id \in DOMAIN table /\ table[vlan_id].created_on_ucs

ExpectedName(vlan_id) == IF vlan_id = 100 THEN "OS-PP-100" ELSE "OS-PP-200"

\* C20: update_port_precommit for a VM-FEX port (vnic type direct or
\* macvtap on a Cisco VIC) on vlan v leaves a row for v named 'OS-PP-<v>',
\* with the created flag false when the row is new; the flag of a vlan
\* turns true only in an update_port_postcommit for that vlan in which
\* create_portprofile returned success, and is false after one in which it
\* returned failure.
C20_PortProfileLifecycle ==
    [][/\ (/\ call'.op = "update_port_precommit"
           /\ mech.phase = "idle" /\ mech'.phase = "precommit"
           /\ call'.vnic_type \in {"direct", "macvtap"}
           /\ call'.pci_vendor_info = "1137:0071") =>
             /\ call'.vlan_id \in DOMAIN mech'.rows
             /\ mech'.rows[call'.vlan_id].profile_id
                   = ExpectedName(call'.vlan_id)
             /\ call'.vlan_id \notin DOMAIN port_profiles =>
                   ~Created(mech'.rows, call'.vlan_id)
       /\ \A v \in Vlans :
             (Created(port_profiles', v) /\ ~Created(port_profiles, v)) =>
                /\ PostcommitStep
                /\ call'.vlan_id = v
                /\ result'.kind = "create_portprofile"
                /\ result'.ok
       /\ (PostcommitStep /\ result'.kind = "create_portprofile") =>
             (Created(port_profiles', call'.vlan_id) <=> result'.ok)]_vars

C20_Witness ==
    /\ call.op = "update_port_postcommit"
    /\ result.kind = "create_portprofile"
    /\ result.ok
    /\ call.vlan_id \in DOMAIN port_profiles
    /\ port_profiles[call.vlan_id]
          = [profile_id |-> ExpectedName(call.vlan_id),
             created_on_ucs |-> TRUE]
    /\ \E v \in DOMAIN port_profiles : ~Created(port_profiles, v)

\* ================ the cfg agent notifier (L3RouterJointAgentNotifyAPI)
\* longest router list a caller passes
MaxRouters == 2

\* the routers a caller may name: hosted on a device with two eligible cfg
\* agents, with one, with none, and not hosted
Routers ==
    {[id |-> "r1", hosting_device |-> "hd1"],
     [id |-> "r2", hosting_device |-> None],
     [id |-> "r3", hosting_device |-> "hd3"],
     [id |-> "r4", hosting_device |-> "hd2"]}

RouterLists == UNION {[1..n -> Routers] : n \in 0..MaxRouters}

Operations == {None, "add_router_interface"}

\* l3plugin.get_cfg_agents_for_hosting_devices(admin_context, [hd_id],
\* admin_state_up=True, active=True, schedule=True): the hosts of the
\* eligible agents
get_cfg_agents_for_hosting_devices(hd_id) ==
    IF hd_id = "hd1" THEN <<"host1", "host2">>
    ELSE IF hd_id = "hd2" THEN <<"host2">>
    ELSE << >>

\* Mutant: the payload is the hosting device, not the router.
cast_HostingDevice(server, method, router) ==
    [server |-> server, method |-> method,
     args |-> [routers |-> <<router.hosting_device>>]]

\* client.prepare(server=agent.host).cast(context, method,
\*                                        routers=[router['id']])
cast(server, method, router) ==
    [server |-> server, method |-> method,
     args |-> [routers |-> <<router.id>>]]

\* Mutant: only the first agent is notified.
notify_agents_FirstOnly(agents, method, router) ==
    IF agents = << >> THEN << >>
    ELSE <<cast(agents[1], method, router)>>

\* 'for agent in agents': one cast per agent
notify_agents(agents, method, router) ==
    [i \in 1..Len(agents) |-> cast(agents[i], method, router)]

\* Mutant: the loop ends at the first router without hosting device.
RECURSIVE _agent_notification_Break(_, _, _, _)
_agent_notification_Break(method, routers, operation, data) ==
    IF routers = << >> THEN [lookups |-> << >>, casts |-> << >>]
    ELSE IF Head(routers).hosting_device = None
    THEN [lookups |-> << >>, casts |-> << >>]
    ELSE LET router == Head(routers)
             rest == _agent_notification_Break(method, Tail(routers),
                                               operation, data)
         IN  [lookups |-> <<router.hosting_device>> \o rest.lookups,
              casts |-> notify_agents(get_cfg_agents_for_hosting_devices(
                                          router.hosting_device),
                                      method, router) \o rest.casts]

\* the agent lookups and the casts of _agent_notification, in order
RECURSIVE _agent_notification(_, _, _, _)
_agent_notification(method, routers, operation, data) ==
    IF routers = << >> THEN [lookups |-> << >>, casts |-> << >>]
    ELSE LET router == Head(routers)
             rest == _agent_notification(method, Tail(routers),
                                         operation, data)
         IN  IF router.hosting_device = None THEN rest
             ELSE [lookups |-> <<router.hosting_device>> \o rest.lookups,
                   casts |-> notify_agents(
                                 get_cfg_agents_for_hosting_devices(
                                     router.hosting_device),
                                 method, router) \o rest.casts]

router_deleted(router) ==
    _agent_notification("router_deleted", <<router>>, None, None)

routers_updated(routers, operation, data) ==
    IF routers # << >>
    THEN _agent_notification("routers_updated", routers, operation, data)
    ELSE [lookups |-> << >>, casts |-> << >>]

\* the messages of a sequence of casts
Range(s) == {s[i] : i \in DOMAIN s}

Call_router_deleted ==
    /\ \E router \in Routers :
       \E r \in {router_deleted(router)} :
          /\ casts' = r.casts
          /\ lookups' = r.lookups
          /\ inflight' = inflight \cup Range(r.casts)
          /\ call' = [op |-> "router_deleted", routers |-> <<router>>,
                      operation |-> None, data |-> None]
          /\ result' = Returned("None", EmptyBag)
    /\ UNCHANGED <<store, nve, ghost, exceptRpc>>

Call_routers_updated ==
    /\ \E routers \in RouterLists, operation \in Operations :
       \E r \in {routers_updated(routers, operation, None)} :
          /\ casts' = r.casts
          /\ lookups' = r.lookups
          /\ inflight' = inflight \cup Range(r.casts)
          /\ call' = [op |-> "routers_updated", routers |-> routers,
                      operation |-> operation, data |-> None]
          /\ result' = Returned("None", EmptyBag)
    /\ UNCHANGED <<store, nve, ghost, exceptRpc>>

\* the transport delivers a message to its agent, or loses it; a cast gives
\* the notifier nothing back either way
Transport ==
    /\ \E m \in inflight : inflight' = inflight \ {m}
    /\ UNCHANGED <<store, nve, call, result, ghost, casts, lookups, exceptRpc>>

NextRpc ==
    \/ Call_router_deleted
    \/ Call_routers_updated
    \/ Transport

SpecRpc == Init /\ [][NextRpc]_vars

\* ---- hosting_devices_removed
\* c_constants.CFG_AGENT, the topic the removal is sent on
CFG_AGENT == "CFG_AGENT"

CfgAgentHosts == {"host1", "host2"}

HostingDeviceIds == {"hd1", "hd2"}

\* the <hosting_data> dictionary of the removed devices: hosting device id
\* to the ids of its logical resources
HostingDataOf(hds) ==
    [hd \in hds |-> [routers |-> IF hd = "hd1" THEN <<"r1", "r3">>
                                 ELSE <<"r4">>]]

HostingDatas == {HostingDataOf(hds) : hds \in SUBSET HostingDeviceIds}

\* Mutant: one cast for each hosting device of the dictionary.
hosting_devices_removed_PerDevice(hosting_data, deconfigure, host) ==
    [i \in 1..Cardinality(DOMAIN hosting_data) |->
        [topic |-> CFG_AGENT, server |-> host,
         method |-> "hosting_devices_removed",
         args |-> [payload |-> [hosting_data |-> hosting_data,
                                deconfigure |-> deconfigure]]]]

\* the casts of hosting_devices_removed, in order; 'not hosting_data' holds
\* of the dictionary without keys
hosting_devices_removed(hosting_data, deconfigure, host) ==
    IF DOMAIN hosting_data = {} THEN << >>
    ELSE <<[topic |-> CFG_AGENT, server |-> host,
            method |-> "hosting_devices_removed",
            args |-> [payload |-> [hosting_data |-> hosting_data,
                                   deconfigure |-> deconfigure]]]>>

Call_hosting_devices_removed ==
    /\ \E hosting_data \in HostingDatas, deconfigure \in BOOLEAN, host \in CfgAgentHosts :
       \E r \in {hosting_devices_removed(hosting_data, deconfigure, host)} :
          /\ casts' = r
          /\ lookups' = << >>
          /\ inflight' = inflight \cup Range(r)
          /\ call' = [op |-> "hosting_devices_removed",
                      hosting_data |-> hosting_data,
                      deconfigure |-> deconfigure, host |-> host]
          /\ result' = Returned("None", EmptyBag)
    /\ UNCHANGED <<store, nve, ghost, exceptRpc>>

NextHostingDevices ==
    \/ Call_hosting_devices_removed
    \/ Transport

SpecHostingDevices == Init /\ [][NextHostingDevices]_vars

\* ---- C23
\* C23: hosting_devices_removed with an empty hosting_data casts nothing and
\* puts nothing in transit; otherwise it casts one message and no more,
\* whatever the number of hosting devices, to the given host on the
\* cfg agent topic, and the payload of the message is the hosting_data and
\* the deconfigure flag of the caller.
C23_OneCastToHost ==
    [][(call'.op = "hosting_devices_removed" /\ inflight \subseteq inflight') =>
          /\ result' = Returned("None", EmptyBag)
          /\ inflight' = inflight \cup Range(casts')
          /\ IF call'.hosting_data = HostingDataOf({})
             THEN casts' = << >> /\ inflight' = inflight
             ELSE /\ Len(casts') = 1
                  /\ casts'[1].topic = "CFG_AGENT"
                  /\ casts'[1].server = call'.host
                  /\ casts'[1].method = "hosting_devices_removed"
                  /\ DOMAIN casts'[1].args = {"payload"}
                  /\ casts'[1].args.payload
                        = [hosting_data |-> call'.hosting_data,
                           deconfigure |-> call'.deconfigure]]_vars

C23_Witness ==
    /\ call.op = "hosting_devices_removed"
    /\ DOMAIN call.hosting_data = {"hd1", "hd2"}
    /\ call.deconfigure
    /\ call.host = "host2"
    /\ Len(casts) = 1
    /\ casts[1] \in inflight
    /\ Cardinality(inflight) = 3

\* ---- C15
RpcOps == {"router_deleted", "routers_updated"}

\* the hosts of the eligible cfg agents of a hosting device
Eligible(hd_id) ==
    IF hd_id = "hd1" THEN {"host1", "host2"}
    ELSE IF hd_id = "hd2" THEN {"host2"}
    ELSE {}

\* the casts that name the router
CastsFor(router_id) ==
    {k \in DOMAIN casts : casts[k].args.routers = <<router_id>>}

\* C15: a router without hosting device causes no agent lookup and no cast,
\* a router whose hosting device has no eligible agent causes no cast, a
\* call with an empty router list casts nothing and looks nothing up, and
\* each router of the call that has a hosting device with agents is
\* notified to each of them.
C15_NoTargetsNoCast ==
    call.op \in RpcOps =>
       /\ None \notin Range(lookups)
       /\ \A i \in DOMAIN call.routers :
             LET router == call.routers[i]
             IN  /\ router.hosting_device = None =>
                       CastsFor(router.id) = {}
                 /\ Eligible(router.hosting_device) = {} =>
                       CastsFor(router.id) = {}
                 /\ \A host \in Eligible(router.hosting_device) :
                       \E k \in CastsFor(router.id) :
                          casts[k].server = host /\ casts[k].method = call.op
       /\ call.routers = << >> => casts = << >> /\ lookups = << >>

C15_Witness ==
    /\ call.op = "routers_updated"
    /\ Len(call.routers) = 2
    /\ call.routers[1].hosting_device = None
    /\ call.routers[2].hosting_device = "hd1"
    /\ Len(casts) = 2
    /\ lookups = <<"hd1">>

\* ---- C16
\* C16 as claimed: each cast of routers_updated carries the id of the
\* router and the operation and the data the caller passed.
C16_PayloadNamesOperation ==
    call.op = "routers_updated" =>
       \A k \in DOMAIN casts :
          /\ \E i \in DOMAIN call.routers :
                casts[k].args.routers = <<call.routers[i].id>>
          /\ "operation" \in DOMAIN casts[k].args
          /\ casts[k].args.operation = call.operation
          /\ "data" \in DOMAIN casts[k].args
          /\ casts[k].args.data = call.data

\* C16 as amended: each cast carries the name of the notification
\* (routers_updated or router_deleted) and, as its only argument, the list
\* holding the id of the one router it is about; the operation and the data
\* the caller passed are not in the message.
C16_PayloadNamesRouterAndMethod ==
    call.op \in RpcOps =>
       \A k \in DOMAIN casts :
          /\ casts[k].method = call.op
          /\ DOMAIN casts[k].args = {"routers"}
          /\ \E i \in DOMAIN call.routers :
                /\ casts[k].args.routers = <<call.routers[i].id>>
                /\ casts[k].server \in Eligible(call.routers[i].hosting_device)

C16_Witness ==
    /\ call.op = "routers_updated"
    /\ call.operation = "add_router_interface"
    /\ casts # << >>
    /\ \A k \in DOMAIN casts : DOMAIN casts[k].args = {"routers"}

\* ---- C17
\* the step is a call of the notifier
DispatchStep == call'.op \in RpcOps /\ inflight \subseteq inflight'

\* C17: a call of the notifier returns after it has cast, for each router
\* of the list that has a hosting device and each eligible agent of that
\* device, one message and no more, whatever is in transit; when a message
\* is delivered or lost nothing is cast again.
C17_FireAndForget ==
    [][/\ DispatchStep =>
             /\ result' = Returned("None", EmptyBag)
             /\ inflight' = inflight \cup Range(casts')
             /\ \A router \in Routers, host \in {"host1", "host2"} :
                   Cardinality({k \in DOMAIN casts' :
                                   casts'[k] = [server |-> host,
                                                method |-> call'.op,
                                                args |-> [routers |->
                                                            <<router.id>>]]})
                     = Cardinality({i \in DOMAIN call'.routers :
                                      /\ call'.routers[i] = router
                                      /\ host \in Eligible(
                                                    router.hosting_device)})
       /\ ~DispatchStep =>
             /\ casts' = casts
             /\ inflight' \subseteq inflight]_vars

C17_Witness ==
    /\ call.op = "routers_updated"
    /\ Len(casts) = 3
    /\ inflight = {}
    /\ network_profiles = << >>
    /\ network_bindings = << >>
    /\ port_bindings = << >>

\* ===================================== the N1KV tables (n1kv_db.py)
NetpIds == {"netp1", "netp2"}
SegmentTypes == {"vlan", "vxlan"}
NetworkIds == {"net1", "net2"}
PolicyProfileIds == {"pp1", "pp2"}
N1kvPorts == {"port1", "port2"}

\* the table without the row of the key
Without(table, key) == [k \in DOMAIN table \ {key} |-> table[k]]

\* the table with the row under the key
With(table, key, row) ==
    [k \in DOMAIN table \cup {key} |-> IF k = key THEN row ELSE table[k]]

\* add_network_profile; id is the UUID the new row is given
add_network_profile(profiles, id, netp_name, netp_type) ==
    With(profiles, id, [name |-> netp_name, segment_type |-> netp_type])

\* some network binding references the network profile
referenced(bindings, netp_id) ==
    \E n \in DOMAIN bindings : bindings[n].profile_id = netp_id

\* Mutant: the profile is looked up but not deleted.
remove_network_profile_NoDelete(profiles, bindings, netp_id, fk_enforced) ==
    [table |-> profiles, res |-> Returned("None", EmptyBag)]

\* remove_network_profile. The function makes no usage check; the flush of
\* the delete of a referenced row fails where the database enforces the
\* foreign key of the binding (fk_enforced) and succeeds where it does not.
remove_network_profile(profiles, bindings, netp_id, fk_enforced) ==
    IF netp_id \notin DOMAIN profiles
    THEN [table |-> profiles, res |-> Returned("None", EmptyBag)]
    ELSE IF fk_enforced /\ referenced(bindings, netp_id)
    THEN [table |-> profiles, res |-> Raised("DBReferenceError")]
    ELSE [table |-> Without(profiles, netp_id),
          res |-> Returned("None", EmptyBag)]

add_network_binding(bindings, network_id, network_type, segment_id, netp_id) ==
    With(bindings, network_id,
         [network_type |-> network_type, segmentation_id |-> segment_id,
          profile_id |-> netp_id])

add_policy_binding(bindings, port_id, pprofile_id) ==
    With(bindings, port_id, [profile_id |-> pprofile_id])

policy_profile_in_use(bindings, profile_id) ==
    \E p \in DOMAIN bindings : bindings[p].profile_id = profile_id

Call_add_network_profile ==
    /\ \E id \in NetpIds \ DOMAIN network_profiles,
          netp_type \in SegmentTypes :
          /\ network_profiles' = add_network_profile(network_profiles, id,
                                     "netp", netp_type)
          /\ call' = [op |-> "add_network_profile", netp_name |-> "netp",
                      netp_type |-> netp_type]
          /\ result' = Returned("row", EmptyBag)
    /\ UNCHANGED <<store, nve, ghost, network_bindings, port_bindings, exceptN1kv>>

Call_remove_network_profile ==
    /\ \E netp_id \in NetpIds, fk_enforced \in BOOLEAN :
       \E r \in {remove_network_profile(network_profiles, network_bindings,
                                        netp_id, fk_enforced)} :
          /\ network_profiles' = r.table
          /\ result' = r.res
          /\ call' = [op |-> "remove_network_profile", netp_id |-> netp_id]
    /\ UNCHANGED <<store, nve, ghost, network_bindings, port_bindings, exceptN1kv>>

\* a network is bound to an existing network profile
Call_add_network_binding ==
    /\ \E network_id \in NetworkIds \ DOMAIN network_bindings,
          netp_id \in DOMAIN network_profiles, segment_id \in Vlans :
          /\ network_bindings' = add_network_binding(network_bindings,
                                     network_id,
                                     network_profiles[netp_id].segment_type,
                                     segment_id, netp_id)
          /\ call' = [op |-> "add_network_binding",
                      network_id |-> network_id, netp_id |-> netp_id]
          /\ result' = Returned("row", EmptyBag)
    /\ UNCHANGED <<store, nve, ghost, network_profiles, port_bindings, exceptN1kv>>

Call_add_policy_binding ==
    /\ \E port_id \in N1kvPorts \ DOMAIN port_bindings,
          pprofile_id \in PolicyProfileIds :
          /\ port_bindings' = add_policy_binding(port_bindings, port_id,
                                                 pprofile_id)
          /\ call' = [op |-> "add_policy_binding", port_id |-> port_id,
                      profile_id |-> pprofile_id]
          /\ result' = Returned("row", EmptyBag)
    /\ UNCHANGED <<store, nve, ghost, network_profiles, network_bindings, exceptN1kv>>

Call_policy_profile_in_use ==
    /\ \E profile_id \in PolicyProfileIds :
          /\ call' = [op |-> "policy_profile_in_use",
                      profile_id |-> profile_id]
          /\ result' = Returned(IF policy_profile_in_use(port_bindings,
                                                          profile_id)
                                THEN "True" ELSE "False", EmptyBag)
    /\ UNCHANGED <<store, nve, ghost, n1kvVars, exceptN1kv>>

NextN1kv ==
    \/ Call_add_network_profile
    \/ Call_remove_network_profile
    \/ Call_add_network_binding
    \/ Call_add_policy_binding
    \/ Call_policy_profile_in_use

SpecN1kv == Init /\ [][NextN1kv]_vars

\* ---- C18
\* a network binding names the profile
NetpReferenced(netp_id) ==
    \E n \in DOMAIN network_bindings :
       network_bindings[n].profile_id = netp_id

\* C18 as claimed: the delete of a profile that a binding references fails
\* with ProfileInUseError and leaves the profile; the delete of an
\* unreferenced profile removes it; the delete of an id without profile
\* changes nothing.
C18_DeleteReferencedFails ==
    [][call'.op = "remove_network_profile" =>
         IF call'.netp_id \notin DOMAIN network_profiles
         THEN network_profiles' = network_profiles /\ result'.exc = "none"
         ELSE IF NetpReferenced(call'.netp_id)
         THEN /\ result'.exc = "ProfileInUseError"
              /\ network_profiles' = network_profiles
         ELSE /\ result'.exc = "none"
              /\ call'.netp_id \notin DOMAIN network_profiles']_vars

\* C18 as amended: remove_network_profile makes no usage check and never
\* fails with ProfileInUseError. The delete of an id without profile
\* changes nothing and returns; the delete of an unreferenced profile
\* removes that profile alone; the delete of a referenced profile either
\* removes it as well, leaving the bindings that name it, or fails with the
\* reference error of the database and leaves it. The usage check is a call
\* of its own: policy_profile_in_use is true exactly when a port binding
\* names the policy profile.
C18_DeleteMakesNoUsageCheck ==
    [][/\ call'.op = "remove_network_profile" =>
             /\ result'.exc # "ProfileInUseError"
             /\ network_bindings' = network_bindings
             /\ port_bindings' = port_bindings
             /\ IF call'.netp_id \notin DOMAIN network_profiles
                THEN /\ network_profiles' = network_profiles
                     /\ result' = Returned("None", EmptyBag)
                ELSE IF result'.exc = "none"
                THEN /\ DOMAIN network_profiles'
                           = DOMAIN network_profiles \ {call'.netp_id}
                     /\ \A id \in DOMAIN network_profiles' :
                           network_profiles'[id] = network_profiles[id]
                ELSE /\ NetpReferenced(call'.netp_id)
                     /\ result'.exc = "DBReferenceError"
                     /\ network_profiles' = network_profiles
       /\ call'.op = "policy_profile_in_use" =>
             /\ result'.kind = "True" <=>
                   \E p \in DOMAIN port_bindings :
                      port_bindings[p].profile_id = call'.profile_id
             /\ UNCHANGED n1kvVars]_vars

C18_Witness ==
    /\ call.op = "remove_network_profile"
    /\ result.exc = "none"
    /\ call.netp_id \notin DOMAIN network_profiles
    /\ NetpReferenced(call.netp_id)

\* ---- C24
\* C24: update_nexusport_binding with new_vlan_id None or 0 returns None and
\* leaves the tables as they were, whatever the port has: no binding (no
\* not-found error), one, or several (no error of the 'one' lookup).
C24_FalsyVlanIsNoop ==
    [][(/\ call'.op = "update_nexusport_binding"
        /\ call'.new_vlan_id \in {0, NoneInt}) =>
          /\ result' = [exc |-> "none", kind |-> "None", rows |-> << >>]
          /\ store' = store
          /\ nve' = nve]_vars

C24_Witness ==
    /\ call.op = "update_nexusport_binding"
    /\ call.new_vlan_id = 0
    /\ \A r \in DOMAIN store : r.port_id # call.port_id
    /\ store # << >>
    /\ result.exc = "none" /\ result.kind = "None"

\* ---- C25
\* C25: remove_nexusnve_binding raises (NoResultFound) and leaves the table
\* as it was when no row has the vni, switch and device; when one row has,
\* that row, and no other, is deleted and returned. The two NVE reads
\* return an empty list, without raising, for a key no row has.
C25_NveRemoveRaisesOnAbsence ==
    [][/\ call'.op = "remove_nexusnve_binding" =>
             LET m == {r \in DOMAIN nve : /\ r.vni = call'.vni
                                          /\ r.switch_ip = call'.switch_ip
                                          /\ r.device_id = call'.device_id}
             IN  /\ store' = store
                 /\ m = {} =>
                       /\ result'.exc = "NoResultFound"
                       /\ nve' = nve
                 /\ (\E r \in m : m = {r} /\ nve[r] = 1) =>
                       /\ result'.exc = "none"
                       /\ DOMAIN result'.rows = m
                       /\ DOMAIN nve' = DOMAIN nve \ m
                       /\ \A r \in DOMAIN nve' : nve'[r] = nve[r]
       /\ (/\ call'.op = "get_nve_vni_switch_bindings"
           /\ \A r \in DOMAIN nve :
                 r.vni # call'.vni \/ r.switch_ip # call'.switch_ip) =>
             result' = [exc |-> "none", kind |-> "rows", rows |-> << >>]
       /\ (/\ call'.op = "get_nve_vni_member_bindings"
           /\ \A r \in DOMAIN nve :
                 \/ r.vni # call'.vni \/ r.switch_ip # call'.switch_ip
                 \/ r.device_id # call'.device_id) =>
             result' = [exc |-> "none", kind |-> "rows", rows |-> << >>]]_vars

C25_Witness ==
    /\ call.op = "remove_nexusnve_binding"
    /\ result.exc = "NoResultFound"
    /\ nve # << >>
    /\ \E r \in DOMAIN nve : r.switch_ip = call.switch_ip
    /\ \E r \in DOMAIN nve : r.device_id = call.device_id

\* ---- C21
\* the step is the precommit hook of a port update
PrecommitStep ==
    /\ call'.op = "update_port_precommit"
    /\ mech.phase = "idle"
    /\ mech'.phase = "precommit"

\* C21: update_port_precommit adds a port-profile row only for a VM-FEX
\* port (vnic type direct or macvtap on the Cisco VIC). For a port on the
\* supported Intel device the rows are left as they were, a vlan without
\* row is still without row, and the commit that follows changes nothing.
C21_OnlyVmFexRecorded ==
    [][/\ PrecommitStep =>
             /\ mech'.rows # port_profiles =>
                   /\ call'.vnic_type \in {"direct", "macvtap"}
                   /\ call'.pci_vendor_info = "1137:0071"
             /\ call'.pci_vendor_info = "8086:10c9" =>
                   /\ mech'.rows = port_profiles
                   /\ call'.vlan_id \notin DOMAIN port_profiles =>
                         call'.vlan_id \notin DOMAIN mech'.rows
             /\ port_profiles' = port_profiles
       /\ (/\ mech.phase = "precommit" /\ mech'.phase = "committed"
           /\ mech.pci_vendor_info = "8086:10c9") =>
             port_profiles' = port_profiles]_vars

C21_Witness ==
    /\ mech.phase = "committed"
    /\ mech.vnic_type = "macvtap"
    /\ mech.pci_vendor_info = "8086:10c9"
    /\ mech.vlan_id \notin DOMAIN port_profiles
    /\ port_profiles # << >>

\* ---- C22
\* C22: check_vnic_type_and_vendor_info is true exactly for a vnic type
\* direct or macvtap together with the pci_vendor_info of a supported
\* device (Cisco VIC 1240, Intel 82599): false for vnic type normal on a
\* supported device, false for an unsupported device with vnic type direct.
C22_SupportedVnicAndVendor ==
    call.op = "check_vnic_type_and_vendor_info" =>
       /\ result.exc = "none"
       /\ result.kind \in {"True", "False"}
       /\ result.kind = "True" <=>
             /\ call.vnic_type = "direct" \/ call.vnic_type = "macvtap"
             /\ \/ call.pci_vendor_info = "1137:0071"
                \/ call.pci_vendor_info = "8086:10c9"

C22_Witness ==
    /\ call.op = "check_vnic_type_and_vendor_info"
    /\ call.vnic_type = "normal"
    /\ call.pci_vendor_info = "1137:0071"
    /\ result.kind = "False"

\* ===================== the Nexus configuration (ML2MechCiscoConfig)
\* longest list of configuration files (cfg.CONF.config_file)
MaxFiles == 2

\* section names and device addresses are strings, modelled as the sequence
\* of their parts with the separator ':' as a part of its own
NexusSection(dev_id, dev_ip) == <<dev_id, ":", dev_ip>>

\* the configuration files an installation may name: each is readable or
\* not, and a readable one holds sections in the order keys() yields them,
\* each with its options and the list of values of each option
ConfigFiles ==
    {[readable |-> TRUE,
      sections |-> <<[name |-> NexusSection("ml2_mech_cisco_nexus", "1.1.1.1"),
                      options |-> [username |-> <<"admin">>,
                                   compute1 |-> <<"1/1">>]]>>],
     [readable |-> TRUE,
      sections |-> <<[name |-> NexusSection("ML2_MECH_CISCO_NEXUS", "1.1.1.1"),
                      options |-> [username |-> <<"root">>]],
                     [name |-> NexusSection("ml2_mech_cisco_nexus", "2.2.2.2"),
                      options |-> [compute1 |-> <<"1/2", "1/3">>]]>>],
     [readable |-> TRUE,
      sections |-> <<[name |-> <<"ml2_cisco">>,
                      options |-> [vlan_name_prefix |-> <<"q-">>]]>>],
     [readable |-> TRUE,
      sections |-> <<[name |-> NexusSection("ml2_mech_cisco_nexus", "1.1.1.1"),
                      options |-> [username |-> <<"alice">>]],
                     [name |-> NexusSection("ML2_MECH_CISCO_NEXUS", "1.1.1.1"),
                      options |-> [username |-> <<"bob">>]]>>],
     [readable |-> TRUE,
      sections |-> <<[name |-> NexusSection("ML2_MECH_CISCO_NEXUS", "1.1.1.1"),
                      options |-> [username |-> <<"bob">>]],
                     [name |-> NexusSection("ml2_mech_cisco_nexus", "1.1.1.1"),
                      options |-> [username |-> <<"alice">>]]>>],
     [readable |-> FALSE, sections |-> << >>]}

ConfigFileLists == UNION {[1..n -> ConfigFiles] : n \in 0..MaxFiles}

\* str.partition(':'): the part before the first separator, the separator
\* and the part after it; the whole string and two empty strings when the
\* string has no separator
partition(str) ==
    IF \E i \in DOMAIN str : str[i] = ":"
    THEN LET i == CHOOSE i \in DOMAIN str :
                     str[i] = ":" /\ \A j \in 1..(i - 1) : str[j] # ":"
         IN  <<SubSeq(str, 1, i - 1), <<":">>, SubSeq(str, i + 1, Len(str))>>
    ELSE <<str, << >>, << >>>>

\* str.lower() of the section names in use
lower(str) ==
    [i \in DOMAIN str |-> IF str[i] = "ML2_MECH_CISCO_NEXUS"
                          THEN "ml2_mech_cisco_nexus" ELSE str[i]]

\* multi_parser.read(config_file): the files read, in order
read(config_file) == SelectSeq(config_file, LAMBDA f : f.readable)

\* 'for dev_key, value in parsed_file[parsed_item].items():
\*      self.nexus_dict[dev_ip, dev_key] = value[0]'
add_items(dict, dev_ip, options) ==
    [k \in DOMAIN dict \cup {<<dev_ip, dev_key>> : dev_key \in DOMAIN options} |->
        IF k[1] = dev_ip /\ k[2] \in DOMAIN options
        THEN options[k[2]][1] ELSE dict[k]]

\* 'for parsed_item in parsed_file.keys()'
RECURSIVE add_parsed_file(_, _)
add_parsed_file(dict, sections) ==
    IF sections = << >> THEN dict
    ELSE LET parsed_item == Head(sections)
             parts == partition(parsed_item.name)
             dev_id == parts[1]
             dev_ip == parts[3]
         IN  add_parsed_file(
                 IF lower(dev_id) = <<"ml2_mech_cisco_nexus">>
                 THEN add_items(dict, dev_ip, parsed_item.options)
                 ELSE dict,
                 Tail(sections))

\* 'for parsed_file in multi_parser.parsed'
RECURSIVE add_parsed(_, _)
add_parsed(dict, parsed) ==
    IF parsed = << >> THEN dict
    ELSE add_parsed(add_parsed_file(dict, Head(parsed).sections), Tail(parsed))

\* Mutant: each instance builds a dictionary of its own.
_create_ml2_mech_device_cisco_dictionary_Fresh(dict, config_file) ==
    IF Len(read(config_file)) # Len(config_file)
    THEN [exc |-> "cfg.Error", nexus_dict |-> dict]
    ELSE [exc |-> "none", nexus_dict |-> add_parsed(<< >>, read(config_file))]

\* the exception raised, if any, and the class dictionary afterwards
_create_ml2_mech_device_cisco_dictionary(dict, config_file) ==
    IF Len(read(config_file)) # Len(config_file)
    THEN [exc |-> "cfg.Error", nexus_dict |-> dict]
    ELSE [exc |-> "none", nexus_dict |-> add_parsed(dict, read(config_file))]

\* ML2MechCiscoConfig(): the constructor of one more instance; the dictionary
\* is an attribute of the class, the same for every instance
Call_ML2MechCiscoConfig ==
    /\ \E config_file \in ConfigFileLists :
       \E r \in {_create_ml2_mech_device_cisco_dictionary(nexus_dict, config_file)} :
          /\ nexus_dict' = r.nexus_dict
          /\ call' = [op |-> "ML2MechCiscoConfig", config_file |-> config_file]
          /\ result' = IF r.exc = "none"
                       THEN Returned("ML2MechCiscoConfig", EmptyBag)
                       ELSE Raised(r.exc)
    /\ UNCHANGED <<store, nve, ghost, exceptCfg>>

NextConfig == Call_ML2MechCiscoConfig

SpecConfig == Init /\ [][NextConfig]_vars

\* ---- C26
\* the values a file gives the entry: one for each of its Nexus sections of
\* the device that set the key
ValuesIn(file, key) ==
    {file.sections[i].options[key[2]][1] :
        i \in {j \in DOMAIN file.sections :
                 /\ Len(file.sections[j].name) = 3
                 /\ file.sections[j].name[1]
                       \in {"ml2_mech_cisco_nexus", "ML2_MECH_CISCO_NEXUS"}
                 /\ <<file.sections[j].name[3]>> = key[1]
                 /\ key[2] \in DOMAIN file.sections[j].options}}

\* the entries the files may set
CfgKeys ==
    {<<<<dev_ip>>, dev_key>> : dev_ip \in {"1.1.1.1", "2.2.2.2"}, dev_key \in {"username", "compute1"}}

\* the files of the list that set the entry
Setting(config_file, key) ==
    {i \in DOMAIN config_file : ValuesIn(config_file[i], key) # {}}

====
